---- MODULE Spec2Model ----
(***************************************************************************)
(* gnome-spotlight: one invocation (Application.Run) resolves the locale,  *)
(* asks the metadata service for an image URL, downloads the image into    *)
(* the target directory, writes three dconf keys and prunes old images.    *)
(* The model keeps the target directory (name -> modification time and     *)
(* data), the wall clock, and for every invocation its position in Run,    *)
(* its locals and the dconf writes it has issued.  Strings are TLA+        *)
(* strings; the string functions of the source are computed character by   *)
(* character.                                                              *)
(***************************************************************************)
EXTENDS Integers, Sequences, FiniteSets

\* Largest clock value / modification time of the model.
MaxTime == 2

\* main.go:47, default of the -preserve flag.
DefaultPreserve == 3

\* The -preserve flag is a uint that cleanImages converts with int(preserve).
\* The model holds the flag as the int it converts to: 0..2^63-1 as itself,
\* 2^64-1 (the largest value the flag accepts) as -1.
MaxUintAsInt == -1

\* Invocations of the tool: 1 runs alone in Spec, 1 and 2 interleave in SpecConc.
Procs == {1, 2}

VARIABLES
    fs,        \* target directory: entry name -> [mtime, data]
    dirKind,   \* what a.dir names: "dir", "file" or "missing"
    now,       \* wall clock, the modification time given to written files
    pc,        \* per invocation: position in Run
    preserve,  \* per invocation: Application.preserve, as int(preserve)
    req,       \* per invocation: metadata request in flight
    url,       \* per invocation: image url returned by api.Get
    body,      \* per invocation: body of the image response
    off,       \* per invocation: offset of the created file's descriptor
    path,      \* per invocation: destination path computed by newImage
    fdLive,    \* per invocation: the created file is still linked under path
    writes,    \* per invocation: dconf writes issued, in order
    entries,   \* per invocation: ReadDir's entries the filter loop has not reached
    files,     \* per invocation: cleanImages' files slice
    idx,       \* per invocation: cleanImages' position in the delete loop
    err,       \* per invocation: the error Run returned
    before,    \* history: the directory when cleanImages was entered
    n0         \* history: number of managed images when the run started

vars == <<fs, dirKind, now, pc, preserve, req, url, body, off, path, fdLive,
          writes, entries, files, idx, err, before, n0>>

----------------------------------------------------------------------------
\* String helpers of the Go standard library, as the source uses them.

Char(s, i) == SubSeq(s, i, i)

\* strings.HasPrefix
HasPrefix(s, pre) == Len(s) >= Len(pre) /\ SubSeq(s, 1, Len(pre)) = pre

\* strings.LastIndex for a one-character separator, 1-based, 0 when absent.
LastIndex(s, c) ==
    LET hits == {i \in 1..Len(s) : Char(s, i) = c}
    IN IF hits = {} THEN 0 ELSE CHOOSE i \in hits : \A j \in hits : j <= i

\* strings.Index for a one-character separator, 1-based, 0 when absent.
Index(s, c) ==
    LET hits == {i \in 1..Len(s) : Char(s, i) = c}
    IN IF hits = {} THEN 0 ELSE CHOOSE i \in hits : \A j \in hits : i <= j

\* strings.Split(s, c) for a one-character separator: never empty.
RECURSIVE Split(_, _)
Split(s, c) ==
    LET i == Index(s, c)
    IN IF i = 0 THEN <<s>>
       ELSE <<SubSeq(s, 1, i - 1)>> \o Split(SubSeq(s, i + 1, Len(s)), c)

\* strings.ReplaceAll(s, old, new) for one-character old and new.
RECURSIVE ReplaceAll(_, _, _)
ReplaceAll(s, old, new) ==
    IF s = "" THEN ""
    ELSE (IF Char(s, 1) = old THEN new ELSE Char(s, 1))
         \o ReplaceAll(SubSeq(s, 2, Len(s)), old, new)

\* Removal of trailing slashes.
RECURSIVE TrimSlashes(_)
TrimSlashes(s) ==
    IF s # "" /\ Char(s, Len(s)) = "/" THEN TrimSlashes(SubSeq(s, 1, Len(s) - 1))
    ELSE s

\* path.Base
Base(p) ==
    IF p = "" THEN "."
    ELSE LET t == TrimSlashes(p)
             e == SubSeq(t, LastIndex(t, "/") + 1, Len(t))
         IN IF e = "" THEN "/" ELSE e

\* path.Join(dir, elem) for a clean dir and an elem without "." or ".."
\* elements: the two joined by a slash, cleaned of trailing slashes.
Join(dir, elem) == TrimSlashes(dir \o "/" \o elem)

----------------------------------------------------------------------------
\* Program constants.

imagePrefix == "gnome-spotlight_"

\* Application.dir, the -dir flag.
Dir == "/bg"

\* writeToDconf's keys.
Keys == << "/org/gnome/desktop/background/picture-uri",
           "/org/gnome/desktop/background/picture-uri-dark",
           "/org/gnome/desktop/screensaver/picture-uri" >>

\* The value without the quotes dconf needs.
DconfValueUnquoted(imagePath) == "file://" \o imagePath

\* writeToDconf's value for an image path.
DconfValue(imagePath) == "'file://" \o imagePath \o "'"

\* strings.ToLower on ASCII letters.
RECURSIVE ToLower(_)
ToLower(s) ==
    IF s = "" THEN ""
    ELSE LET i == Index("ABCDEFGHIJKLMNOPQRSTUVWXYZ", Char(s, 1))
         IN (IF i = 0 THEN Char(s, 1) ELSE Char("abcdefghijklmnopqrstuvwxyz", i))
            \o ToLower(Tail(s))

\* net/url's scheme of a url: the letters, digits, "+", "-" and "." before
\* the first colon, starting with a letter, in lower case; "" when there is none.
Scheme(u) ==
    LET i == Index(u, ":")
        letters == "abcdefghijklmnopqrstuvwxyz"
        low == ToLower(SubSeq(u, 1, i - 1))
    IN IF i <= 1 THEN ""
       ELSE IF /\ Index(letters, Char(low, 1)) # 0
               /\ \A j \in 1..Len(low) :
                     Index(letters \o "0123456789+-.", Char(low, j)) # 0
            THEN low ELSE ""

\* http.Get sends a request only for an http or https url with a host.
CanGet(u) ==
    LET rest == SubSeq(u, Index(u, ":") + 1, Len(u))
    IN /\ Scheme(u) \in {"http", "https"}
       /\ HasPrefix(rest, "//")
       /\ Len(rest) > 2
       /\ Char(rest, 3) \notin {"/", "?", "#"}

\* A filter that lets every directory entry through.
IsManagedAny(name) == TRUE

\* The condition under which cleanImages considers a directory entry.
IsManaged(name) == HasPrefix(name, imagePrefix)

\* Directory entry named by a path inside Dir.
EntryOf(p) == SubSeq(p, Len(Dir) + 2, Len(p))

\* Destination path of newImage for an image url.
ImagePath(u) == Join(Dir, imagePrefix \o Base(u))

Managed(d) == {n \in DOMAIN d : IsManaged(n)}

----------------------------------------------------------------------------
\* Inputs.

\* Values of the -preserve flag.
PreserveInputs == 0..DefaultPreserve \cup {MaxUintAsInt}

\* Values of the LANG environment variable.
LangInputs == {"", ".UTF-8", "C", "en_US.UTF-8", "sv_SE", "en_", "-"}

\* Asset urls the metadata service returns ("" when the field is absent).
UrlInputs == {"http://x/a.jpg", "Https://x/b.jpg/", ""}

\* Bodies of the image response; io.Copy writes a body one character at a time.
BodyInputs == {"", "ab"}

\* The byte a hole of a file reads as.
Nul == "0"

\* The data of a file after a write of chunk at offset o: the bytes there are
\* replaced, the file grows when the write ends past its end, nothing is cut.
RECURSIVE Pad(_, _)
Pad(data, o) == IF Len(data) >= o THEN data ELSE Pad(data \o Nul, o)

WriteAt(data, o, chunk) ==
    LET d == Pad(data, o)
    IN SubSeq(d, 1, o) \o chunk
       \o (IF Len(d) > o + Len(chunk) THEN SubSeq(d, o + Len(chunk) + 1, Len(d)) ELSE "")

\* Outcomes of the metadata request.
FetchOutcomes == {"neterr", "status", "badjson", "noitems", "baditem", "ok"}

\* Entries the directory may hold at the start.
InitManaged == {imagePrefix \o "a.jpg", imagePrefix \o "b.jpg", imagePrefix \o "z.jpg"}
InitOther == {"a.jpg"}

Times == 0..MaxTime

File(t, d) == [mtime |-> t, data |-> d]

NoReq == [sent |-> FALSE, lang |-> "", country |-> "", locale |-> ""]
EmptyDir == [n \in {} |-> File(0, "")]

Unlink(d, name) == [n \in DOMAIN d \ {name} |-> d[n]]
Put(d, name, f) == [n \in DOMAIN d \cup {name} |-> IF n = name THEN f ELSE d[n]]

\* The directories the model starts from: any subset of the initial entries,
\* every managed one with any modification time.
InitDirs ==
    UNION {{d \in [S \cup O -> {File(t, "orig") : t \in Times}] :
                \A n \in O : d[n].mtime = 0} :
           S \in SUBSET InitManaged, O \in SUBSET InitOther}

----------------------------------------------------------------------------
\* Initial state: no invocation has started.

Idle ==
    /\ pc = [p \in Procs |-> "idle"]
    /\ preserve = [p \in Procs |-> 0]
    /\ req = [p \in Procs |-> NoReq]
    /\ url = [p \in Procs |-> ""]
    /\ body = [p \in Procs |-> ""]
    /\ off = [p \in Procs |-> 0]
    /\ path = [p \in Procs |-> ""]
    /\ fdLive = [p \in Procs |-> FALSE]
    /\ writes = [p \in Procs |-> <<>>]
    /\ entries = [p \in Procs |-> <<>>]
    /\ files = [p \in Procs |-> <<>>]
    /\ idx = [p \in Procs |-> 0]
    /\ err = [p \in Procs |-> ""]
    /\ before = [p \in Procs |-> EmptyDir]
    /\ n0 = [p \in Procs |-> 0]

Init ==
    /\ now = 0
    /\ \/ dirKind = "dir" /\ fs \in InitDirs
       \/ dirKind \in {"file", "missing"} /\ fs = EmptyDir
    /\ Idle

----------------------------------------------------------------------------
\* Steps of Run.

Finished(p) == pc[p] \in {"idle", "done", "failed", "panic"}

\* return fmt.Errorf(...): Run returns the error and main exits 1.
Fail(p, e) ==
    /\ pc' = [pc EXCEPT ![p] = "failed"]
    /\ err' = [err EXCEPT ![p] = e]

\* A run-time panic: the process dies with exit status 2.
Panic(p, e) ==
    /\ pc' = [pc EXCEPT ![p] = "panic"]
    /\ err' = [err EXCEPT ![p] = e]

Goto(p, l) ==
    /\ pc' = [pc EXCEPT ![p] = l]
    /\ UNCHANGED err

\* main: parse the flags, build the Application, call Run.
StartRun(p) ==
    /\ Finished(p)
    /\ \E k \in PreserveInputs : preserve' = [preserve EXCEPT ![p] = k]
    /\ pc' = [pc EXCEPT ![p] = "resolve"]
    /\ req' = [req EXCEPT ![p] = NoReq]
    /\ url' = [url EXCEPT ![p] = ""]
    /\ body' = [body EXCEPT ![p] = ""]
    /\ off' = [off EXCEPT ![p] = 0]
    /\ path' = [path EXCEPT ![p] = ""]
    /\ fdLive' = [fdLive EXCEPT ![p] = FALSE]
    /\ writes' = [writes EXCEPT ![p] = <<>>]
    /\ entries' = [entries EXCEPT ![p] = <<>>]
    /\ files' = [files EXCEPT ![p] = <<>>]
    /\ idx' = [idx EXCEPT ![p] = 0]
    /\ err' = [err EXCEPT ![p] = ""]
    /\ before' = [before EXCEPT ![p] = EmptyDir]
    /\ n0' = [n0 EXCEPT ![p] = Cardinality(Managed(fs))]
    /\ UNCHANGED <<fs, dirKind, now>>

\* microsoft.Get, first half: locale and country from LANG.
ParseLang(lang) ==
    LET l == Split(lang, ".")
    IN IF Len(l) = 0
       THEN [err |-> "failed to parse locale from LANG", locale |-> "", country |-> ""]
       ELSE LET locale == ReplaceAll(l[1], "_", "-")
                c == Split(locale, "-")
            IN IF Len(c) = 0
               THEN [err |-> "failed to parse country code from locale",
                     locale |-> locale, country |-> ""]
               ELSE [err |-> "", locale |-> locale, country |-> c[Len(c)]]

\* microsoft.Get up to http.Get(url): the request leaves with country and locale.
Resolve(p) ==
    /\ pc[p] = "resolve"
    /\ \E lang \in LangInputs :
          LET r == ParseLang(lang)
          IN IF r.err # ""
             THEN Fail(p, r.err) /\ UNCHANGED req
             ELSE /\ req' = [req EXCEPT ![p] = [sent |-> TRUE, lang |-> lang,
                                   country |-> r.country, locale |-> r.locale]]
                  /\ Goto(p, "fetch")
    /\ UNCHANGED <<fs, dirKind, now, preserve, url, path, fdLive, writes,
                   files, idx, before, n0, body, off, entries>>

\* The error microsoft.Get returns for an outcome of the request.
FetchError(o) ==
    CASE o = "neterr" -> "invalid response when querying microsoft api"
      [] o = "status" -> "received non-ok response code when querying microsoft api"
      [] o = "badjson" -> "decode microsoft api response body"
      [] o = "noitems" -> "microsoft api response body contains no images"
      [] o = "baditem" -> "decode microsoft api image metadata"
      [] OTHER -> ""

\* microsoft.Get, second half: the response, its two decodings, the asset url.
Fetch(p) ==
    /\ pc[p] = "fetch"
    /\ req' = [req EXCEPT ![p] = NoReq]
    /\ \E o \in FetchOutcomes :
          IF o # "ok"
          THEN Fail(p, FetchError(o)) /\ UNCHANGED url
          ELSE \E u \in UrlInputs :
                  url' = [url EXCEPT ![p] = u] /\ Goto(p, "download")
    /\ UNCHANGED <<fs, dirKind, now, preserve, path, fdLive, writes,
                   files, idx, before, n0, body, off, entries>>

\* newImage: http.Get(url) and the status check.
Download(p) ==
    /\ pc[p] = "download"
    /\ IF ~CanGet(url[p])
       THEN Fail(p, "failed to fetch image") /\ UNCHANGED body
       ELSE \E o \in {"neterr", "status", "ok"} :
               CASE o = "neterr" -> Fail(p, "failed to fetch image") /\ UNCHANGED body
                 [] o = "status" ->
                       /\ Fail(p, "received non-ok response code when fetching image")
                       /\ UNCHANGED body
                 [] OTHER ->
                       \E b \in BodyInputs :
                          body' = [body EXCEPT ![p] = b] /\ Goto(p, "statdir")
    /\ UNCHANGED <<fs, dirKind, now, preserve, req, url, path, fdLive, writes,
                   files, idx, before, n0, off, entries>>

\* newImage: os.Stat(a.dir) and IsDir.
StatDir(p) ==
    /\ pc[p] = "statdir"
    /\ CASE dirKind = "missing" -> Fail(p, "stat image directory")
         [] dirKind = "file" -> Fail(p, "dir exists but is not a directory")
         [] OTHER -> Goto(p, "check")
    /\ UNCHANGED <<fs, dirKind, now, preserve, req, url, path, fdLive, writes,
                   files, idx, before, n0, body, off, entries>>

\* newImage without the guard: the destination is created whatever is there.
CheckExistsNoGuard(p) ==
    /\ pc[p] = "check"
    /\ path' = [path EXCEPT ![p] = Join(Dir, imagePrefix \o Base(url[p]))]
    /\ pc' = [pc EXCEPT ![p] = "create"]
    /\ UNCHANGED <<fs, dirKind, now, preserve, req, url, fdLive, writes,
                   files, idx, err, before, n0, body, off, entries>>

\* newImage: the destination path and the no-overwrite guard.  Any Stat
\* result other than "does not exist" (the file is there, or Stat itself
\* failed) is reported as "image already exists".
CheckExists(p) ==
    /\ pc[p] = "check"
    /\ path' = [path EXCEPT ![p] = ImagePath(url[p])]
    /\ IF EntryOf(ImagePath(url[p])) \in DOMAIN fs
       THEN Fail(p, "image already exists")
       ELSE \E statFails \in BOOLEAN :
               IF statFails THEN Fail(p, "image already exists")
               ELSE Goto(p, "create")
    /\ UNCHANGED <<fs, dirKind, now, preserve, req, url, fdLive, writes,
                   files, idx, before, n0, body, off, entries>>

\* os.Create replaced by an exclusive create that repeats the guard.
CreateExclusive(p) ==
    /\ pc[p] = "create"
    /\ \E ok \in BOOLEAN :
          IF ok /\ EntryOf(path[p]) \notin DOMAIN fs
          THEN /\ fs' = Put(fs, EntryOf(path[p]), File(now, ""))
               /\ fdLive' = [fdLive EXCEPT ![p] = TRUE]
               /\ pc' = [pc EXCEPT ![p] = "copy"]
               /\ UNCHANGED err
          ELSE /\ pc' = [pc EXCEPT ![p] = "failed"]
               /\ err' = [err EXCEPT ![p] = "create image file"]
               /\ UNCHANGED <<fs, fdLive>>
    /\ UNCHANGED <<dirKind, now, preserve, req, url, path, writes,
                   files, idx, before, n0, body, off, entries>>

\* newImage: os.Create(path).  The file is created, or truncated when another
\* invocation created it since the guard; its modification time is the clock
\* and the descriptor starts at offset 0.
Create(p) ==
    /\ pc[p] = "create"
    /\ \E ok \in BOOLEAN :
          IF ok
          THEN /\ fs' = Put(fs, EntryOf(path[p]), File(now, ""))
               /\ fdLive' = [fdLive EXCEPT ![p] = TRUE]
               /\ Goto(p, "copy")
          ELSE Fail(p, "create image file") /\ UNCHANGED <<fs, fdLive>>
    /\ UNCHANGED <<dirKind, now, preserve, req, url, path, writes,
                   files, idx, before, n0, body, off, entries>>

\* The directory after this invocation writes the next character of the
\* body at its descriptor's offset.  A file that was unlinked after it was
\* created is written without appearing in the directory.
WriteNext(p) ==
    IF fdLive[p]
    THEN Put(fs, EntryOf(path[p]),
             File(now, WriteAt(fs[EntryOf(path[p])].data, off[p],
                               Char(body[p], off[p] + 1))))
    ELSE fs

\* io.Copy whose error is dropped: Run goes on with a partly written file.
CopyIgnoringError(p) ==
    /\ pc[p] = "copy"
    /\ \E ok \in BOOLEAN :
          IF ok /\ off[p] < Len(body[p])
          THEN /\ fs' = WriteNext(p)
               /\ off' = [off EXCEPT ![p] = @ + 1]
               /\ UNCHANGED pc
          ELSE /\ pc' = [pc EXCEPT ![p] = "dconf"]
               /\ UNCHANGED <<fs, off>>
    /\ UNCHANGED <<dirKind, now, preserve, req, url, path, fdLive, writes,
                   files, idx, err, before, n0, body, entries>>

\* newImage: one round of io.Copy(file, res.Body).  A read of the body gives
\* the next character, which is written at the descriptor's offset, or the
\* end of the body, and io.Copy returns nil; a failed read or write ends the
\* run with what was written so far in place.
Copy(p) ==
    /\ pc[p] = "copy"
    /\ \E ok \in BOOLEAN :
          IF ~ok
          THEN Fail(p, "write image file") /\ UNCHANGED <<fs, off>>
          ELSE IF off[p] < Len(body[p])
          THEN /\ fs' = WriteNext(p)
               /\ off' = [off EXCEPT ![p] = @ + 1]
               /\ UNCHANGED <<pc, err>>
          ELSE Goto(p, "dconf") /\ UNCHANGED <<fs, off>>
    /\ UNCHANGED <<dirKind, now, preserve, req, url, path, fdLive, writes,
                   files, idx, before, n0, body, entries>>

\* writeToDconf: one iteration of the loop over the keys, one dconf write.
WriteDconf(p) ==
    /\ pc[p] = "dconf"
    /\ \E ok \in BOOLEAN :
          IF ok
          THEN /\ writes' = [writes EXCEPT ![p] =
                     Append(@, [key |-> Keys[Len(@) + 1], value |-> DconfValue(path[p])])]
               /\ Goto(p, IF Len(writes[p]) + 1 = Len(Keys) THEN "clean" ELSE "dconf")
          ELSE Fail(p, "execute dconf write") /\ UNCHANGED writes
    /\ UNCHANGED <<fs, dirKind, now, preserve, req, url, path, fdLive,
                   files, idx, before, n0, body, off, entries>>

\* Characters in byte order, as far as file names here use them.
Ascii == "-./0123456789:ABCDEFGHIJKLMNOPQRSTUVWXYZ_abcdefghijklmnopqrstuvwxyz"

\* Byte-wise string comparison a < b.
RECURSIVE StrLess(_, _)
StrLess(a, b) ==
    IF b = "" THEN FALSE
    ELSE IF a = "" THEN TRUE
    ELSE IF Char(a, 1) = Char(b, 1) THEN StrLess(Tail(a), Tail(b))
    ELSE Index(Ascii, Char(a, 1)) < Index(Ascii, Char(b, 1))

\* os.ReadDir: the entry names sorted by filename.
RECURSIVE ReadDir(_)
ReadDir(names) ==
    IF names = {} THEN <<>>
    ELSE LET first == CHOOSE n \in names : \A m \in names \ {n} : StrLess(n, m)
         IN <<first>> \o ReadDir(names \ {first})

\* The comparison with its operands swapped: descending modification time.
LessDescending(a, b) == a.mtime > b.mtime

\* The comparison slices.SortFunc is given, as "a sorts before b":
\* a.ModTime().Compare(b.ModTime()) < 0.
Less(a, b) == a.mtime < b.mtime

\* slices.SortFunc on a slice of fewer than 12 elements: insertion sort, each
\* element moved left past the elements it sorts strictly before.
RECURSIVE Insert(_, _)
Insert(s, x) ==
    IF s = <<>> \/ ~Less(x, s[Len(s)]) THEN Append(s, x)
    ELSE Append(Insert(SubSeq(s, 1, Len(s) - 1), x), s[Len(s)])

RECURSIVE SortFunc(_)
SortFunc(s) ==
    IF Len(s) <= 1 THEN s
    ELSE Insert(SortFunc(SubSeq(s, 1, Len(s) - 1)), s[Len(s)])

\* A mis-sized slice bound: one entry too few is deleted.
NumToDeleteOffByOne(n, k) == IF n <= k THEN 0 ELSE n - k - 1

\* Number of elements of the slice the loop ranges over: none when
\* len(files) <= int(preserve), else len(files)-int(preserve).
NumToDelete(n, k) == IF n <= k THEN 0 ELSE n - k

\* Cleanup that treats preserve = 0 as a threshold like any other.
KeepAllNever(k) == FALSE

\* cleanImages' first test: preserve = 0 means keep all.
KeepAll(k) == k = 0

\* The largest len(files) for which every Go release gives the same
\* cap(files): up to here append doubles the capacity and the allocator
\* rounds nothing up.
SmallCap == 32

\* cap(files) after n appends to a nil slice, for n <= SmallCap: the least
\* of 0, 1, 2, 4, 8, 16, 32 that holds n elements.
Cap(n) ==
    LET caps == {0, 1, 2, 4, 8, 16, 32}
    IN CHOOSE c \in caps : c >= n /\ \A d \in caps : d >= n => c <= d

\* Whether the slice expression files[:e] on n collected files panics.  A
\* bound within len(files) never does.  Past it the bound is tested against
\* cap(files), which above SmallCap files depends on the Go release the
\* program is built with: either outcome is taken.
SlicePanics(n, e) ==
    IF e <= n THEN {FALSE}
    ELSE IF n <= SmallCap THEN {e > Cap(n)}
    ELSE BOOLEAN

\* The entries from the first managed one on: the filter loop passes over
\* the others without a system call.
RECURSIVE SkipOthers(_)
SkipOthers(s) ==
    IF s = <<>> \/ IsManaged(Head(s)) THEN s ELSE SkipOthers(Tail(s))

\* cleanImages: the preserve = 0 return and os.ReadDir.
CleanList(p) ==
    /\ pc[p] = "clean"
    /\ before' = [before EXCEPT ![p] = fs]
    /\ IF KeepAll(preserve[p])
       THEN Goto(p, "done") /\ UNCHANGED entries
       ELSE \E ok \in BOOLEAN :
               IF ok
               THEN /\ entries' = [entries EXCEPT ![p] = ReadDir(DOMAIN fs)]
                    /\ Goto(p, "info")
               ELSE Fail(p, "read dir") /\ UNCHANGED entries
    /\ UNCHANGED <<fs, dirKind, now, preserve, req, url, path, fdLive, writes,
                   files, idx, n0, body, off>>

\* cleanImages: the filter loop up to the next managed entry and its Info,
\* an lstat of the file as it is now; it fails when the file is gone.
CleanInfo(p) ==
    /\ pc[p] = "info"
    /\ SkipOthers(entries[p]) # <<>>
    /\ LET rest == SkipOthers(entries[p])
           name == Head(rest)
       IN \E ok \in BOOLEAN :
             IF ok /\ name \in DOMAIN fs
             THEN /\ files' = [files EXCEPT ![p] =
                        Append(@, [name |-> name, mtime |-> fs[name].mtime])]
                  /\ entries' = [entries EXCEPT ![p] = Tail(rest)]
                  /\ UNCHANGED <<pc, err>>
             ELSE Fail(p, "get file info") /\ UNCHANGED <<files, entries>>
    /\ UNCHANGED <<fs, dirKind, now, preserve, req, url, path, fdLive, writes,
                   idx, before, n0, body, off>>

\* cleanImages after the filter loop: the threshold return, the sort and the
\* slice expression files[:len(files)-int(preserve)], which panics when its
\* bound is past cap(files) (SlicePanics).
CleanSort(p) ==
    /\ pc[p] = "info"
    /\ SkipOthers(entries[p]) = <<>>
    /\ entries' = [entries EXCEPT ![p] = <<>>]
    /\ LET n == Len(files[p])
           k == preserve[p]
       IN IF NumToDelete(n, k) = 0
          THEN Goto(p, "done") /\ UNCHANGED <<files, idx>>
          ELSE /\ files' = [files EXCEPT ![p] = SortFunc(@)]
               /\ idx' = [idx EXCEPT ![p] = 1]
               /\ \E panics \in SlicePanics(n, NumToDelete(n, k)) :
                     IF panics
                     THEN Panic(p, "slice bounds out of range")
                     ELSE Goto(p, "remove")
    /\ UNCHANGED <<fs, dirKind, now, preserve, req, url, path, fdLive, writes,
                   before, n0, body, off>>

\* cleanImages: one iteration of the delete loop, os.Remove of the next
\* oldest file.  Removing a file that is gone, or any other failure, ends
\* the run with the rest of the files in place.  An element of the slice
\* past len(files) is a nil FileInfo, and file.Name() on it panics.
RemoveImage(p) ==
    /\ pc[p] = "remove"
    /\ IF idx[p] > Len(files[p])
       THEN Panic(p, "nil pointer dereference") /\ UNCHANGED <<fs, fdLive, idx>>
       ELSE LET name == files[p][idx[p]].name
            IN \E ok \in BOOLEAN :
                  IF ok /\ name \in DOMAIN fs
                  THEN /\ fs' = Unlink(fs, name)
                       /\ fdLive' = [q \in Procs |->
                             IF EntryOf(path[q]) = name THEN FALSE ELSE fdLive[q]]
                       /\ idx' = [idx EXCEPT ![p] = @ + 1]
                       /\ Goto(p, IF idx[p] = NumToDelete(Len(files[p]), preserve[p])
                                  THEN "done" ELSE "remove")
                  ELSE Fail(p, "delete image") /\ UNCHANGED <<fs, fdLive, idx>>
    /\ UNCHANGED <<dirKind, now, preserve, req, url, path, writes, files,
                   before, n0, body, off, entries>>

\* Time passes.
Tick ==
    /\ now < MaxTime
    /\ now' = now + 1
    /\ UNCHANGED <<fs, dirKind, pc, preserve, req, url, path, fdLive, writes,
                   files, idx, err, before, n0, body, off, entries>>

----------------------------------------------------------------------------
\* One invocation at a time: every run ends before the next one starts.

Step(p) ==
    \/ StartRun(p)
    \/ Resolve(p)
    \/ Fetch(p)
    \/ Download(p)
    \/ StatDir(p)
    \/ CheckExists(p)
    \/ Create(p)
    \/ Copy(p)
    \/ WriteDconf(p)
    \/ CleanList(p)
    \/ CleanInfo(p)
    \/ CleanSort(p)
    \/ RemoveImage(p)

Next == Step(1) \/ Tick

Spec == Init /\ [][Next]_vars

----------------------------------------------------------------------------
\* Two invocations interleaved, from the point where each has its image
\* response in hand (the steps before touch nothing the two share).  Both
\* are started with the same -preserve flag and are served the same body.

ConcDirs == {d \in InitDirs : DOMAIN d \subseteq {imagePrefix \o "z.jpg"}}

InitConc ==
    /\ now = 0
    /\ dirKind = "dir"
    /\ fs \in ConcDirs
    /\ pc = [p \in Procs |-> "statdir"]
    /\ \E k \in PreserveInputs : preserve = [p \in Procs |-> k]
    /\ url \in [Procs -> {u \in UrlInputs : CanGet(u)}]
    /\ \E b \in BodyInputs : body = [p \in Procs |-> b]
    /\ off = [p \in Procs |-> 0]
    /\ entries = [p \in Procs |-> <<>>]
    /\ req = [p \in Procs |-> NoReq]
    /\ path = [p \in Procs |-> ""]
    /\ fdLive = [p \in Procs |-> FALSE]
    /\ writes = [p \in Procs |-> <<>>]
    /\ files = [p \in Procs |-> <<>>]
    /\ idx = [p \in Procs |-> 0]
    /\ err = [p \in Procs |-> ""]
    /\ before = [p \in Procs |-> EmptyDir]
    /\ n0 = [p \in Procs |-> Cardinality(Managed(fs))]

ConcStep(p) ==
    \/ StatDir(p)
    \/ CheckExists(p)
    \/ Create(p)
    \/ Copy(p)
    \/ WriteDconf(p)
    \/ CleanList(p)
    \/ CleanInfo(p)
    \/ CleanSort(p)
    \/ RemoveImage(p)

NextConc == (\E p \in Procs : ConcStep(p)) \/ Tick

SpecConc == InitConc /\ [][NextConc]_vars

----------------------------------------------------------------------------
\* Properties.

\* Entries whose name starts with the managed prefix, read off the name.
Prefixed(d) == {n \in DOMAIN d : Len(n) >= 16 /\ SubSeq(n, 1, 16) = "gnome-spotlight_"}

\* Comparisons of a count with a preserve value, which is held as the int
\* it converts to: a negative one stands for a value above every count.
AtMost(n, k) == k < 0 \/ n <= k

Below(n, k) == k < 0 \/ n < k

Min(n, k) == IF AtMost(n, k) THEN n ELSE k

\* The stage of Run a position belongs to.
Stage(l) ==
    CASE l = "idle" -> 0
      [] l = "resolve" -> 1
      [] l = "fetch" -> 2
      [] l \in {"download", "statdir", "check", "create", "copy"} -> 3
      [] l = "dconf" -> 4
      [] l \in {"clean", "info", "remove"} -> 5
      [] l = "done" -> 6
      [] OTHER -> 7

\* C1: after a Run that returns success with preserve = k >= 1, at most k
\* files with the managed prefix are in the directory, whatever it held before.
C1_BoundedAfterRun ==
    \A p \in Procs :
        pc[p] = "done" /\ preserve[p] # 0 =>
            AtMost(Cardinality(Prefixed(fs)), preserve[p])

\* A successful run with preserve = 1 that found two managed files, one of
\* them the partly written leftover of a failed run, and left one.
C1_Witness ==
    \E p \in Procs :
        /\ pc[p] = "done" /\ preserve[p] = 1 /\ n0[p] = 2
        /\ \E n \in Prefixed(before[p]) : before[p][n].data = "a"
        /\ Cardinality(Prefixed(fs)) = 1

\* C2: for N managed files with pairwise distinct modification times and
\* preserve = k >= 1, a cleanImages call that returns success leaves exactly
\* the min(N, k) most recent managed files, unchanged, and no other.
C2_KeepsNewest ==
    \A p \in Procs :
        LET B == before[p]
            M == Prefixed(B)
            k == preserve[p]
            keep == {n \in M :
                       Below(Cardinality({m \in M : B[m].mtime > B[n].mtime}), k)}
        IN (/\ pc[p] = "done" /\ k # 0
            /\ \A m, n \in M : m # n => B[m].mtime # B[n].mtime)
           => /\ Prefixed(fs) = keep
              /\ \A n \in keep : fs[n] = B[n]
              /\ Cardinality(Prefixed(fs)) = Min(Cardinality(M), k)

\* cleanImages returned success with preserve = 2 on three managed files of
\* distinct modification times.
C2_Witness ==
    \E p \in Procs :
        /\ pc[p] = "done" /\ preserve[p] = 2
        /\ Cardinality(Prefixed(before[p])) = 3
        /\ \A m, n \in Prefixed(before[p]) :
              m # n => before[p][m].mtime # before[p][n].mtime
        /\ Cardinality(Prefixed(fs)) = 2

\* C3: in a successful Run with preserve >= 1 the file the run created is
\* still in the directory when the run ends, so every dconf value written
\* names an existing file.
C3_NewImageSurvives ==
    \A p \in Procs :
        pc[p] = "done" /\ preserve[p] # 0 =>
            /\ EntryOf(path[p]) \in DOMAIN fs
            /\ \A i \in DOMAIN writes[p] :
                  \E n \in DOMAIN fs :
                     writes[p][i].value = "'file://" \o Dir \o "/" \o n \o "'"

\* C4: when the destination file exists as newImage reaches the guard, the
\* run fails with "image already exists", the directory is left as it was, and
\* the failed run issues no dconf write and deletes nothing.
C4_NoOverwrite ==
    [][\A p \in Procs :
          /\ (/\ pc[p] = "check" /\ pc'[p] # "check"
              /\ (imagePrefix \o Base(url[p])) \in DOMAIN fs)
             => /\ pc'[p] = "failed" /\ err'[p] = "image already exists"
                /\ fs' = fs
                /\ writes'[p] = <<>> /\ files'[p] = <<>>
          /\ (pc[p] = "failed" /\ err[p] = "image already exists")
             => \/ pc'[p] = "resolve"
                \/ pc'[p] = "failed" /\ fs' = fs /\ writes'[p] = <<>>
      ]_vars

\* A run failed on the guard and the file that was there holds its old data.
C4_Witness ==
    \E p \in Procs :
        /\ pc[p] = "failed" /\ err[p] = "image already exists"
        /\ EntryOf(path[p]) \in DOMAIN fs
        /\ fs[EntryOf(path[p])].data = "orig"
        /\ writes[p] = <<>>

\* C5: with preserve = 0 cleanImages returns success without deleting, for
\* every directory; a successful Run ends with one managed file more than it
\* started with, and no step of the run lowers the count.
C5_KeepAll ==
    [][\A p \in Procs :
          (preserve[p] = 0 /\ ~Finished(p)) =>
             /\ Cardinality(Prefixed(fs')) >= Cardinality(Prefixed(fs))
             /\ (pc[p] = "clean" /\ pc'[p] # "clean")
                => pc'[p] = "done" /\ fs' = fs
             /\ pc'[p] = "done"
                => Cardinality(Prefixed(fs')) = n0[p] + 1
      ]_vars

\* A successful run with preserve = 0 ended with three managed files.
C5_Witness ==
    \E p \in Procs :
        /\ pc[p] = "done" /\ preserve[p] = 0
        /\ n0[p] = 2 /\ Cardinality(Prefixed(fs)) = 3

\* C6: a Run moves through Resolve, FetchMetadata, AcquireImage,
\* WriteSetting, Cleanup in that order, never back; a failure ends the run;
\* a file is created only in AcquireImage with the url fetched, a dconf
\* write is issued only in WriteSetting with the image fully written, a file
\* is deleted only in Cleanup after all three dconf writes.
C6_StageOrder ==
    [][/\ \A p \in Procs :
            /\ pc'[p] # pc[p] =>
                  \/ Finished(p) /\ pc'[p] = "resolve"
                  \/ /\ ~Finished(p)
                     /\ Stage(pc'[p]) \in {Stage(pc[p]), Stage(pc[p]) + 1, 7}
            /\ (writes'[p] # writes[p] /\ writes'[p] # <<>>) =>
                  /\ Stage(pc[p]) = 4
                  /\ EntryOf(path[p]) \in DOMAIN fs
                  /\ fs[EntryOf(path[p])].data = body[p]
       /\ (\A p \in Procs : Stage(pc[p]) \in {0, 7} /\ pc'[p] = pc[p]) =>
             fs' = fs /\ writes' = writes
       /\ (\E n \in DOMAIN fs' : n \notin DOMAIN fs) =>
             \E p \in Procs : pc[p] = "create" /\ url[p] # "" /\ ~req[p].sent
       /\ (\E n \in DOMAIN fs : n \notin DOMAIN fs') =>
             \E p \in Procs : pc[p] = "remove" /\ Len(writes[p]) = 3
      ]_vars

\* A run went through every stage and its cleanup deleted a file.
C6_Witness ==
    \E p \in Procs :
        /\ pc[p] = "done" /\ Len(writes[p]) = 3
        /\ Cardinality(DOMAIN before[p]) > Cardinality(DOMAIN fs)

\* C7: from a directory without managed files and preserve = 3, a Run that
\* succeeds ends with exactly one managed file and exactly three dconf
\* writes, one per key in the fixed order, each with the value
\* 'file://<path>' of that file.
C7_EndToEnd ==
    \A p \in Procs :
        (pc[p] = "done" /\ preserve[p] = 3 /\ n0[p] = 0) =>
            /\ Cardinality(Prefixed(fs)) = 1
            /\ Len(writes[p]) = 3
            /\ writes[p][1].key = "/org/gnome/desktop/background/picture-uri"
            /\ writes[p][2].key = "/org/gnome/desktop/background/picture-uri-dark"
            /\ writes[p][3].key = "/org/gnome/desktop/screensaver/picture-uri"
            /\ \A n \in Prefixed(fs) : \A i \in 1..3 :
                  writes[p][i].value = "'file://" \o Dir \o "/" \o n \o "'"

\* Such a run has ended.
C7_Witness ==
    \E p \in Procs :
        /\ pc[p] = "done" /\ preserve[p] = 3 /\ n0[p] = 0
        /\ Len(writes[p]) = 3

\* C8: Get fails when LANG has an empty first "."-segment or the locale an
\* empty last "-"-segment, so no request leaves with an empty locale or an
\* empty country.
C8_NoEmptyRequest ==
    \A p \in Procs :
        req[p].sent => req[p].locale # "" /\ req[p].country # ""

\* C9: for every preserve value, cleanImages leaves every entry without the
\* prefix in place and unchanged, however the call ends, and such entries do
\* not count toward the threshold: the files it collects are the prefixed
\* entries and no other, for a preserve below 2^63 the delete loop is entered
\* only with more than preserve prefixed entries, and with at most preserve
\* of them the directory is left as it was.
C9_OnlyPrefixed ==
    \A p \in Procs :
        (\/ pc[p] \in {"info", "remove", "done", "panic"}
         \/ pc[p] = "failed" /\ err[p] \in {"read dir", "get file info", "delete image"})
        => LET B == before[p]
           IN /\ \A n \in DOMAIN B \ Prefixed(B) :
                    n \in DOMAIN fs /\ fs[n] = B[n]
              /\ \A i \in DOMAIN files[p] : files[p][i].name \in Prefixed(B)
              /\ (pc[p] = "remove" /\ preserve[p] >= 0)
                    => Cardinality(Prefixed(B)) > preserve[p]
              /\ (pc[p] = "done" /\ AtMost(Cardinality(Prefixed(B)), preserve[p]))
                    => fs = B

\* cleanImages returned with preserve = 1 on a directory of two entries, one
\* of them without the prefix, and both are still there.
C9_Witness ==
    \E p \in Procs :
        /\ pc[p] = "done" /\ preserve[p] = 1
        /\ Cardinality(DOMAIN before[p]) = 2
        /\ Cardinality(Prefixed(before[p])) = 1
        /\ fs = before[p]

\* C10: nothing protects the directory against a second invocation.  A run
\* past the guard can always create its file, also when the other run has
\* created it meanwhile; and a run's delete list is the files of the listing
\* it took, whatever the other run has deleted since.
C10_Unprotected ==
    \A p \in Procs :
        /\ pc[p] = "create" => ENABLED (Create(p) /\ pc'[p] = "copy")
        /\ pc[p] = "remove" =>
              /\ {files[p][i].name : i \in DOMAIN files[p]} = Prefixed(before[p])
              /\ ENABLED RemoveImage(p)

\* Both runs passed the guard for the same path, both created and wrote the
\* file and wrote dconf, both listed the directory, and both are about to
\* delete the same file.
C10_Witness ==
    /\ pc[1] = "remove" /\ pc[2] = "remove"
    /\ path[1] = path[2]
    /\ err[1] = "" /\ err[2] = ""
    /\ idx[1] <= Len(files[1]) /\ idx[2] <= Len(files[2])
    /\ files[1][idx[1]].name = files[2][idx[2]].name

====
